---- MODULE Spec2Model ----
(***************************************************************************)
(* Movie recommender: the similarity-ranking engine of model.py and app.py *)
(* and the on-disk model cache of model.py.                                *)
(*                                                                         *)
(* Conventions.  A title is a sequence of one-character strings, an        *)
(* overview or summary a sequence of words.  Rows of a DataFrame and       *)
(* positions of an array are numbered from 1 here and from 0 in Python:    *)
(* model row i is pandas row i-1.  PySlice keeps Python's 0-based bounds.  *)
(***************************************************************************)
EXTENDS Integers, Sequences, FiniteSets, TLC

VARIABLES
    df,              \* the loaded DataFrame (local-corpus mode), <<>> when none
    tfidf,           \* the vectorizer fitted on df
    tfidf_matrix,    \* the document-term matrix fitted on df
    wiki,            \* what Wikipedia answers in this session (live mode)
    fn,              \* the function called last
    title,           \* its title / query_title argument
    top_n,           \* its top_n argument
    outcome,         \* "ok", the error message returned or the exception raised
    idx,             \* recommend: the resolved row, 0 when none
    candidate_tuples,\* fast_recommend_from_wikipedia: the (title, summary) kept
    top_indices,     \* the positions selected (top_indices / idxs)
    recs,            \* the list returned (recommendations / recs / out)
    vect_file,       \* the file at VECT_PATH
    matrix_file,     \* the file at MODEL_PATH
    pc,              \* per process: where it stands in ensure_model
    arg,             \* per process: the df passed to ensure_model
    local,           \* per process: its tfidf and tfidf_matrix variables
    ret,             \* per process: what its last ensure_model call did
    entry,           \* per process: the cache and build counter at its call
    calls,           \* ensure_model calls made so far
    builds,          \* fits completed so far (the build counter)
    faults           \* writes the persistence medium has failed so far

rankVars == <<df, tfidf, tfidf_matrix, wiki, fn, title, top_n, outcome, idx,
              candidate_tuples, top_indices, recs>>

cacheVars == <<vect_file, matrix_file, pc, arg, local, ret, entry, calls,
               builds, faults>>

vars == <<rankVars, cacheVars>>

-----------------------------------------------------------------------------
(* Bounds of the model *)

\* Rows of a corpus.
MaxRows == 3
\* The largest top_n asked for (the caller clamps it to 1..10).
MaxTopN == 3
\* Titles a Wikipedia search returns.
MaxFound == 2
\* Processes sharing the cache files.
NumProcs == 2
\* ensure_model calls in a run.
MaxCalls == 3
\* Writes the persistence medium fails in a run.
MaxFaults == 1

-----------------------------------------------------------------------------
(* Strings *)

\* A missing CSV field (pandas NaN).
NaN == <<"<NaN>">>

PyMin(a, b) == IF a <= b THEN a ELSE b

\* s[lo:hi] for 0 <= lo, 0 <= hi: Python clamps both ends to the length.
PySlice(s, lo, hi) == SubSeq(s, lo + 1, PyMin(hi, Len(s)))

\* s[::-1]
Reversed(s) == [i \in 1..Len(s) |-> s[Len(s) + 1 - i]]

LowerChar(c) == IF c = "A" THEN "a" ELSE IF c = "B" THEN "b" ELSE c

\* str.lower()
str_lower(s) == [i \in 1..Len(s) |-> LowerChar(s[i])]

RECURSIVE lstrip(_)
lstrip(s) == IF s # <<>> /\ Head(s) = " " THEN lstrip(Tail(s)) ELSE s

RECURSIVE rstrip(_)
rstrip(s) == IF s # <<>> /\ s[Len(s)] = " " THEN rstrip(SubSeq(s, 1, Len(s) - 1)) ELSE s

\* str.strip()
str_strip(s) == rstrip(lstrip(s))

\* Series.fillna("")
fillna(x) == IF x = NaN THEN <<>> ELSE x

-----------------------------------------------------------------------------
(* The corpus *)

\* load_data: overview and title with NaN replaced by "", title_lower added.
load_data(raw) ==
    [i \in 1..Len(raw) |->
        [title       |-> fillna(raw[i].title),
         overview    |-> fillna(raw[i].overview),
         title_lower |-> str_lower(fillna(raw[i].title))]]

\* load_local_csv: the same three assignments.
load_local_csv(raw) ==
    [i \in 1..Len(raw) |->
        [title       |-> fillna(raw[i].title),
         overview    |-> fillna(raw[i].overview),
         title_lower |-> str_lower(fillna(raw[i].title))]]

-----------------------------------------------------------------------------
(* TF-IDF and cosine similarity (scikit-learn), over words.                *)
(* A vector is the set of vocabulary terms of a text: every term weighs    *)
(* the same, so the scores keep the zero vector, the symmetry and the      *)
(* equality of scores of equal texts, which is what the ranking reads.     *)

ENGLISH_STOP_WORDS == {"the", "a"}

Tokens(text) == {text[i] : i \in 1..Len(text)} \ ENGLISH_STOP_WORDS

DocFreq(texts, t) == Cardinality({i \in 1..Len(texts) : t \in Tokens(texts[i])})

\* The terms kept: all of them, or the max_features most frequent.
Vocabulary(texts, max_features) ==
    LET all == UNION {Tokens(texts[i]) : i \in 1..Len(texts)}
    IN  IF Cardinality(all) <= max_features THEN all
        ELSE CHOOSE S \in SUBSET all :
                /\ Cardinality(S) = max_features
                /\ \A t \in S, u \in all \ S : DocFreq(texts, t) >= DocFreq(texts, u)

\* TfidfVectorizer.transform of one text.
transform(vect, text) == Tokens(text) \cap vect.vocabulary_

\* TfidfVectorizer(...).fit_transform(texts); raises ValueError ("empty
\* vocabulary") when no text holds a term.
fit_transform(texts, max_features) ==
    LET v == [vocabulary_ |-> Vocabulary(texts, max_features)]
    IN  IF v.vocabulary_ = {}
        THEN [raised |-> TRUE, tfidf |-> v, matrix |-> <<>>]
        ELSE [raised |-> FALSE, tfidf |-> v,
              matrix |-> [i \in 1..Len(texts) |-> transform(v, texts[i])]]

ScoreScale == 60 * 60

\* The squared cosine of two term sets, scaled to an integer; 0 for a zero
\* vector.
Cosine(u, v) ==
    IF u = {} \/ v = {} THEN 0
    ELSE (Cardinality(u \cap v) * Cardinality(u \cap v) * ScoreScale)
            \div (Cardinality(u) * Cardinality(v))

\* cosine_similarity(vec, matrix).flatten()
cosine_similarity(vec, matrix) == [i \in 1..Len(matrix) |-> Cosine(vec, matrix[i])]

Permutations1(n) == {p \in [1..n -> 1..n] : \A i, j \in 1..n : i # j => p[i] # p[j]}

\* numpy argsort, kind="quicksort": a permutation that sorts the keys in
\* ascending order.  The sort is not stable: the order of equal keys is
\* whatever the build's sort produces.
argsort(keys) ==
    {p \in Permutations1(Len(keys)) :
        \A i \in 1..(Len(keys) - 1) : keys[p[i]] <= keys[p[i + 1]]}

Negated(keys) == [i \in 1..Len(keys) |-> 0 - keys[i]]

-----------------------------------------------------------------------------
(* Local-corpus mode *)

\* build_tfidf_from_df (app.py); the fit of build_and_save_model is the same.
build_tfidf_from_df(p_df) ==
    fit_transform([i \in 1..Len(p_df) |-> p_df[i].overview], 20000)

SetMin(S) == CHOOSE x \in S : \A y \in S : x <= y

\* title.lower().strip(), df[df["title_lower"] == title], row.index[0]:
\* the first row whose title_lower equals the query, 0 when row.empty.
resolve_row(p_title, p_df) ==
    LET t   == str_strip(str_lower(p_title))
        row == {i \in 1..Len(p_df) : p_df[i].title_lower = t}
    IN  IF row = {} THEN 0 ELSE SetMin(row)

\* A slice that keeps the best-scored row: [0:top_n].
model_top_indices_from_zero(cosines, p_top_n) ==
    {PySlice(o, 0, p_top_n) : o \in argsort(Negated(cosines))}

\* np.argsort(-cosines)[1:top_n+1]
model_top_indices(cosines, p_top_n) ==
    {PySlice(o, 1, p_top_n + 1) : o \in argsort(Negated(cosines))}

\* cosines.argsort()[::-1][1:top_n+1]
local_top_indices(cosines, p_top_n) ==
    {PySlice(Reversed(o), 1, p_top_n + 1) : o \in argsort(cosines)}

\* The loop that builds the returned list from the selected rows.
recommendations(p_df, cosines, indices) ==
    [j \in 1..Len(indices) |->
        [title    |-> p_df[indices[j]].title,
         overview |-> p_df[indices[j]].overview,
         score    |-> cosines[indices[j]]]]

NotFound == [outcome |-> "ValueError", idx |-> 0, top_indices |-> <<>>, recs |-> <<>>]

\* recommend (model.py): every result the call can produce.
recommend(p_title, p_df, p_tfidf, p_matrix, p_top_n) ==
    LET i0 == resolve_row(p_title, p_df)
    IN  IF i0 = 0 THEN {NotFound}
        ELSE LET movie_vec == transform(p_tfidf, p_df[i0].overview)
                 cosines   == cosine_similarity(movie_vec, p_matrix)
             IN  {[outcome |-> "ok", idx |-> i0, top_indices |-> ti,
                   recs |-> recommendations(p_df, cosines, ti)] :
                     ti \in model_top_indices(cosines, p_top_n)}

\* recommend_from_local_csv (app.py)
recommend_from_local_csv(p_title, p_df, p_tfidf, p_matrix, p_top_n) ==
    LET i0 == resolve_row(p_title, p_df)
    IN  IF i0 = 0 THEN {NotFound}
        ELSE LET movie_vec == transform(p_tfidf, p_df[i0].overview)
                 cosines   == cosine_similarity(movie_vec, p_matrix)
             IN  {[outcome |-> "ok", idx |-> i0, top_indices |-> ti,
                   recs |-> recommendations(p_df, cosines, ti)] :
                     ti \in local_top_indices(cosines, p_top_n)}

-----------------------------------------------------------------------------
(* Live mode *)

\* A failed fetch: wikipedia.summary / wikipedia.search raised.
None == <<"<None>">>

\* fetch_wiki_summary: the summary, None when wikipedia.summary raises.
fetch_wiki_summary(w, t) == w.page[t]

\* `if s:`
Truthy(s) == s # None /\ s # <<>>

\* A comparison that forgets the .lower() calls.
NotEqualExactly(t, q) == t # q

\* t.lower() != query_title.lower()
NotEqualIgnoringCase(t, q) == str_lower(t) # str_lower(q)

\* cosines.argsort()[::-1][:top_n]
live_idxs(cosines, p_top_n) ==
    {PySlice(Reversed(o), 0, p_top_n) : o \in argsort(cosines)}

LiveFailure(what) ==
    [outcome |-> what, idx |-> 0, candidate_tuples |-> <<>>,
     top_indices |-> <<>>, recs |-> <<>>]

\* fast_recommend_from_wikipedia: every result the call can produce.
fast_recommend_from_wikipedia(w, query_title, p_top_n, max_candidates) ==
    IF w.summary = None THEN {LiveFailure("Wikipedia lookup failed")}
    ELSE
    LET source_summary   == w.summary
        found            == IF w.search = None THEN <<>>
                            ELSE PySlice(w.search, 0, max_candidates)
        IsCandidate(t)   == NotEqualIgnoringCase(t, query_title)
        candidate_titles == SelectSeq(found, IsCandidate)
        fetched          == [i \in 1..Len(candidate_titles) |->
                                <<candidate_titles[i],
                                  fetch_wiki_summary(w, candidate_titles[i])>>]
        HasSummary(c)    == Truthy(c[2])
        tuples           == SelectSeq(fetched, HasSummary)
    IN  IF tuples = <<>>
        THEN {LiveFailure("No candidate summaries found on Wikipedia.")}
        ELSE
        LET texts == <<source_summary>> \o [i \in 1..Len(tuples) |-> tuples[i][2]]
            X     == fit_transform(texts, 8000)
        IN  IF X.raised
            THEN {[LiveFailure("ValueError") EXCEPT !.candidate_tuples = tuples]}
            ELSE
            LET cosines == cosine_similarity(X.matrix[1], Tail(X.matrix))
            IN  {[outcome |-> "ok", idx |-> 0, candidate_tuples |-> tuples,
                  top_indices |-> ix,
                  recs |-> [j \in 1..Len(ix) |->
                              [title    |-> tuples[ix[j]][1],
                               overview |-> tuples[ix[j]][2],
                               score    |-> cosines[ix[j]]]]] :
                    ix \in live_idxs(cosines, p_top_n)}

-----------------------------------------------------------------------------
(* The ranking specification: a session either holds a local corpus with   *)
(* the model fitted on it, or asks Wikipedia.                              *)

RawTitles    == {NaN, <<"a">>, <<" ", "A">>}
RawOverviews == {NaN, <<"space">>, <<"space", "stars">>}
RawRows      == [title : RawTitles, overview : RawOverviews]
RawCorpora   == UNION {[1..n -> RawRows] : n \in 1..MaxRows}

LocalQueries == {<<>>, <<" ">>, <<"a">>, <<" ", "A", " ">>, <<"b">>}

LiveQueries   == {<<"a">>, <<"A">>}
LiveTitles    == {<<"a">>, <<"A">>, <<"b">>}
LiveSummaries == {<<>>, <<"the">>, <<"space">>, <<"space", "stars">>}
FoundLists    ==
    {s \in UNION {[1..n -> LiveTitles] : n \in 0..MaxFound} :
        \A i, j \in 1..Len(s) : i # j => s[i] # s[j]}

NoWiki == [live |-> FALSE]

\* What Wikipedia answers to the session's query: its summary (None when
\* wikipedia.summary raises), the titles found (None when wikipedia.search
\* raises) and each title's short summary.  The answers do not change
\* during the session, so a summary memoized by st.cache_data is the one a
\* new fetch would return.
Worlds ==
    [live    : {TRUE},
     query   : LiveQueries,
     summary : {None, <<>>, <<"the">>, <<"space">>},
     search  : {None} \cup FoundLists,
     page    : [LiveTitles -> {None} \cup LiveSummaries]]

NoVectorizer == [vocabulary_ |-> {}]

\* A request is pending: nothing has been called yet.
Pending(q, k) ==
    /\ fn = "none"
    /\ title = q
    /\ top_n = k
    /\ outcome = "none"
    /\ idx = 0
    /\ candidate_tuples = <<>>
    /\ top_indices = <<>>
    /\ recs = <<>>

NoFile == [state |-> "absent", vect |-> NoVectorizer, matrix |-> <<>>]

\* The model cache is not part of the session.
CacheUnused ==
    /\ vect_file = NoFile
    /\ matrix_file = NoFile
    /\ pc = <<>>
    /\ arg = <<>>
    /\ local = <<>>
    /\ ret = <<>>
    /\ entry = <<>>
    /\ calls = 0
    /\ builds = 0
    /\ faults = 0

\* The corpus is loaded and the model built on it (app.py 146-147); the
\* user's title and number are read.
InitLocal ==
    \E raw \in RawCorpora, q \in LocalQueries, k \in 1..MaxTopN :
        LET built == build_tfidf_from_df(load_local_csv(raw))
        IN  /\ ~built.raised
            /\ df = load_local_csv(raw)
            /\ tfidf = built.tfidf
            /\ tfidf_matrix = built.matrix
            /\ wiki = NoWiki
            /\ Pending(q, k)
            /\ CacheUnused

InitLive ==
    /\ df = <<>>
    /\ tfidf = NoVectorizer
    /\ tfidf_matrix = <<>>
    /\ wiki \in Worlds
    /\ \E k \in 1..MaxTopN : Pending(wiki.query, k)
    /\ CacheUnused

InitRank == InitLocal \/ InitLive

Recommend ==
    /\ fn = "none"
    /\ df # <<>>
    /\ \E r \in recommend(title, df, tfidf, tfidf_matrix, top_n) :
        /\ fn' = "recommend"
        /\ outcome' = r.outcome
        /\ idx' = r.idx
        /\ top_indices' = r.top_indices
        /\ recs' = r.recs
    /\ UNCHANGED <<df, tfidf, tfidf_matrix, wiki, title, top_n, candidate_tuples>>
    /\ UNCHANGED cacheVars

RecommendFromLocalCsv ==
    /\ fn = "none"
    /\ df # <<>>
    /\ \E r \in recommend_from_local_csv(title, df, tfidf, tfidf_matrix, top_n) :
        /\ fn' = "recommend_from_local_csv"
        /\ outcome' = r.outcome
        /\ idx' = r.idx
        /\ top_indices' = r.top_indices
        /\ recs' = r.recs
    /\ UNCHANGED <<df, tfidf, tfidf_matrix, wiki, title, top_n, candidate_tuples>>
    /\ UNCHANGED cacheVars

FastRecommendFromWikipedia ==
    /\ fn = "none"
    /\ wiki.live
    /\ \E r \in fast_recommend_from_wikipedia(wiki, title, top_n, 20) :
        /\ fn' = "fast_recommend_from_wikipedia"
        /\ outcome' = r.outcome
        /\ idx' = r.idx
        /\ candidate_tuples' = r.candidate_tuples
        /\ top_indices' = r.top_indices
        /\ recs' = r.recs
    /\ UNCHANGED <<df, tfidf, tfidf_matrix, wiki, title, top_n>>
    /\ UNCHANGED cacheVars

NextRank == Recommend \/ RecommendFromLocalCsv \/ FastRecommendFromWikipedia

SpecRank == InitRank /\ [][NextRank]_vars

-----------------------------------------------------------------------------
(* The model cache (model.py): ensure_model, statement by statement, for   *)
(* each process that shares the two files.                                 *)

\* A file holding a dumped value; "partial" once opened for writing and
\* until the dump completes.
VectFile(v)   == [state |-> "ok", vect |-> v, matrix |-> <<>>]
MatrixFile(m) == [state |-> "ok", vect |-> NoVectorizer, matrix |-> m]
Truncated     == [state |-> "partial", vect |-> NoVectorizer, matrix |-> <<>>]

\* A check that never finds the file (a wrong path).
path_exists_nowhere(f) == FALSE

\* os.path.exists
path_exists(f) == f.state # "absent"

\* joblib.load returns the value of a completely written file and raises
\* on any other.
Loadable(f) == f.state = "ok"

Overviews(p_df) == [i \in 1..Len(p_df) |-> p_df[i].overview]

\* tfidf.fit_transform(df["overview"]) of build_and_save_model
build_fit(p_df) == fit_transform(Overviews(p_df), 20000)

NoLocals == [tfidf |-> NoVectorizer, matrix |-> <<>>]
NoReturn == [outcome |-> "none", tfidf |-> NoVectorizer, matrix |-> <<>>]
Raised(what) == [outcome |-> what, tfidf |-> NoVectorizer, matrix |-> <<>>]

CacheCorpora ==
    {load_data(raw) : raw \in
        {<<[title |-> <<"a">>, overview |-> <<"space">>]>>,
         <<[title |-> <<"a">>, overview |-> <<"space", "stars">>],
           [title |-> <<" ", "A">>, overview |-> <<"space">>]>>,
         <<[title |-> NaN, overview |-> NaN]>>}}

Fittable == {c \in CacheCorpora : ~build_fit(c).raised}

\* The files are absent, or hold the model an earlier run built.
InitFiles ==
    \/ vect_file = NoFile /\ matrix_file = NoFile
    \/ \E c \in Fittable :
        /\ vect_file = VectFile(build_fit(c).tfidf)
        /\ matrix_file = MatrixFile(build_fit(c).matrix)

InitProcs(P) ==
    /\ pc = [p \in P |-> "idle"]
    /\ arg = [p \in P |-> <<>>]
    /\ local = [p \in P |-> NoLocals]
    /\ ret = [p \in P |-> NoReturn]
    /\ entry = [p \in P |-> [vect |-> NoFile, matrix |-> NoFile, builds |-> 0]]
    /\ calls = 0
    /\ builds = 0
    /\ faults = 0

RankUnused ==
    /\ df = <<>>
    /\ tfidf = NoVectorizer
    /\ tfidf_matrix = <<>>
    /\ wiki = NoWiki
    /\ Pending(<<>>, 0)

\* The statement leaves ensure_model by an exception.
Raise(p, what) ==
    /\ ret' = [ret EXCEPT ![p] = Raised(what)]
    /\ local' = [local EXCEPT ![p] = NoLocals]
    /\ pc' = [pc EXCEPT ![p] = "idle"]

Goto(p, label) == pc' = [pc EXCEPT ![p] = label]

\* ensure_model(df) is called.
EnsureModel(p) ==
    /\ pc[p] = "idle"
    /\ calls < MaxCalls
    /\ \E c \in CacheCorpora : arg' = [arg EXCEPT ![p] = c]
    /\ entry' = [entry EXCEPT ![p] =
                    [vect |-> vect_file, matrix |-> matrix_file, builds |-> builds]]
    /\ ret' = [ret EXCEPT ![p] = NoReturn]
    /\ calls' = calls + 1
    /\ Goto(p, "exists_vect")
    /\ UNCHANGED <<vect_file, matrix_file, local, builds, faults>>
    /\ UNCHANGED rankVars

\* load_model: os.path.exists(VECT_PATH) and ...; False returns (None, None)
\* and ensure_model builds.
ExistsVect(p) ==
    /\ pc[p] = "exists_vect"
    /\ IF path_exists(vect_file) THEN Goto(p, "exists_model") ELSE Goto(p, "build")
    /\ UNCHANGED <<vect_file, matrix_file, arg, local, ret, entry, calls, builds, faults>>
    /\ UNCHANGED rankVars

\* load_model: ... and os.path.exists(MODEL_PATH)
ExistsModel(p) ==
    /\ pc[p] = "exists_model"
    /\ IF path_exists(matrix_file) THEN Goto(p, "load_vect") ELSE Goto(p, "build")
    /\ UNCHANGED <<vect_file, matrix_file, arg, local, ret, entry, calls, builds, faults>>
    /\ UNCHANGED rankVars

\* load_model: tfidf = joblib.load(VECT_PATH)
LoadVect(p) ==
    /\ pc[p] = "load_vect"
    /\ IF Loadable(vect_file)
       THEN /\ local' = [local EXCEPT ![p].tfidf = vect_file.vect]
            /\ Goto(p, "load_matrix")
            /\ UNCHANGED ret
       ELSE Raise(p, "load failed")
    /\ UNCHANGED <<vect_file, matrix_file, arg, entry, calls, builds, faults>>
    /\ UNCHANGED rankVars

\* load_model: tfidf_matrix = joblib.load(MODEL_PATH)
LoadMatrix(p) ==
    /\ pc[p] = "load_matrix"
    /\ IF Loadable(matrix_file)
       THEN /\ local' = [local EXCEPT ![p].matrix = matrix_file.matrix]
            /\ Goto(p, "return")
            /\ UNCHANGED ret
       ELSE Raise(p, "load failed")
    /\ UNCHANGED <<vect_file, matrix_file, arg, entry, calls, builds, faults>>
    /\ UNCHANGED rankVars

\* build_and_save_model: the fit
Build(p) ==
    /\ pc[p] = "build"
    /\ IF build_fit(arg[p]).raised
       THEN /\ Raise(p, "ValueError")
            /\ UNCHANGED builds
       ELSE /\ local' = [local EXCEPT ![p] =
                            [tfidf  |-> build_fit(arg[p]).tfidf,
                             matrix |-> build_fit(arg[p]).matrix]]
            /\ builds' = builds + 1
            /\ Goto(p, "dump_vect")
            /\ UNCHANGED ret
    /\ UNCHANGED <<vect_file, matrix_file, arg, entry, calls, faults>>
    /\ UNCHANGED rankVars

\* The persistence medium fails a write: the dump raises.
WriteFails(p) ==
    /\ faults < MaxFaults
    /\ faults' = faults + 1
    /\ Raise(p, "dump failed")

\* joblib.dump(tfidf, VECT_PATH): the file is opened for writing, which
\* empties it
DumpVectOpen(p) ==
    /\ pc[p] = "dump_vect"
    /\ \/ /\ vect_file' = Truncated
          /\ Goto(p, "dump_vect_write")
          /\ UNCHANGED <<local, ret, faults>>
       \/ /\ WriteFails(p)
          /\ UNCHANGED vect_file
    /\ UNCHANGED <<matrix_file, arg, entry, calls, builds>>
    /\ UNCHANGED rankVars

\* joblib.dump(tfidf, VECT_PATH): the pickle is written
DumpVectWrite(p) ==
    /\ pc[p] = "dump_vect_write"
    /\ \/ /\ vect_file' = VectFile(local[p].tfidf)
          /\ Goto(p, "dump_matrix")
          /\ UNCHANGED <<local, ret, faults>>
       \/ /\ WriteFails(p)
          /\ UNCHANGED vect_file
    /\ UNCHANGED <<matrix_file, arg, entry, calls, builds>>
    /\ UNCHANGED rankVars

\* joblib.dump(tfidf_matrix, MODEL_PATH): the file is opened
DumpMatrixOpen(p) ==
    /\ pc[p] = "dump_matrix"
    /\ \/ /\ matrix_file' = Truncated
          /\ Goto(p, "dump_matrix_write")
          /\ UNCHANGED <<local, ret, faults>>
       \/ /\ WriteFails(p)
          /\ UNCHANGED matrix_file
    /\ UNCHANGED <<vect_file, arg, entry, calls, builds>>
    /\ UNCHANGED rankVars

\* joblib.dump(tfidf_matrix, MODEL_PATH): the pickle is written
DumpMatrixWrite(p) ==
    /\ pc[p] = "dump_matrix_write"
    /\ \/ /\ matrix_file' = MatrixFile(local[p].matrix)
          /\ Goto(p, "return")
          /\ UNCHANGED <<local, ret, faults>>
       \/ /\ WriteFails(p)
          /\ UNCHANGED matrix_file
    /\ UNCHANGED <<vect_file, arg, entry, calls, builds>>
    /\ UNCHANGED rankVars

\* return tfidf, tfidf_matrix
Return(p) ==
    /\ pc[p] = "return"
    /\ ret' = [ret EXCEPT ![p] =
                [outcome |-> "ok", tfidf |-> local[p].tfidf, matrix |-> local[p].matrix]]
    /\ local' = [local EXCEPT ![p] = NoLocals]
    /\ Goto(p, "idle")
    /\ UNCHANGED <<vect_file, matrix_file, arg, entry, calls, builds, faults>>
    /\ UNCHANGED rankVars

\* One process: calls follow one another.
SeqProcs == {1}

InitCache == RankUnused /\ InitFiles /\ InitProcs(SeqProcs)

NextCache ==
    \E p \in SeqProcs :
        \/ EnsureModel(p)
        \/ ExistsVect(p)
        \/ ExistsModel(p)
        \/ LoadVect(p)
        \/ LoadMatrix(p)
        \/ Build(p)
        \/ DumpVectOpen(p)
        \/ DumpVectWrite(p)
        \/ DumpMatrixOpen(p)
        \/ DumpMatrixWrite(p)
        \/ Return(p)

SpecCache == InitCache /\ [][NextCache]_vars

\* Several processes: their statements interleave.
Procs == 1..NumProcs

InitConc == RankUnused /\ InitFiles /\ InitProcs(Procs)

NextConc ==
    \E p \in Procs :
        \/ EnsureModel(p)
        \/ ExistsVect(p)
        \/ ExistsModel(p)
        \/ LoadVect(p)
        \/ LoadMatrix(p)
        \/ Build(p)
        \/ DumpVectOpen(p)
        \/ DumpVectWrite(p)
        \/ DumpMatrixOpen(p)
        \/ DumpMatrixWrite(p)
        \/ Return(p)

SpecConc == InitConc /\ [][NextConc]_vars

-----------------------------------------------------------------------------
(* Properties of the ranking specification *)

LocalFns == {"recommend", "recommend_from_local_csv"}
LiveFn   == "fast_recommend_from_wikipedia"
LiveErrors == {"Wikipedia lookup failed", "No candidate summaries found on Wikipedia."}

Selected == {top_indices[j] : j \in 1..Len(top_indices)}

\* C1: in local-corpus mode the returned list never contains the query's
\* own row idx.
C1_NeverRecommendsItself ==
    (fn \in LocalFns /\ outcome = "ok") => idx \notin Selected

\* C4: the returned list is in non-increasing score order, and two returned
\* candidates with equal scores appear in row (candidate) order, the lower
\* index first.
C4_SortedAndStable ==
    (fn # "none" /\ outcome = "ok") =>
        \A j \in 1..(Len(recs) - 1) :
            \/ recs[j].score > recs[j + 1].score
            \/ /\ recs[j].score = recs[j + 1].score
               /\ top_indices[j] < top_indices[j + 1]

\* The texts fast_recommend_from_wikipedia fits its vectorizer on.
LiveTexts ==
    <<wiki.summary>> \o [i \in 1..Len(candidate_tuples) |-> candidate_tuples[i][2]]

\* C5: the ranker returns exactly min(top_n, candidates available) results,
\* also when top_n exceeds the candidates: the corpus size minus one in
\* local-corpus mode, the candidates whose summary was kept in live mode.
\* Whenever the scores were computed (the title resolved; at least one
\* candidate and a fitted vectorizer) the call returns its list.
C5_ReturnsMinOfTopNAndAvailable ==
    /\ (fn \in LocalFns /\ outcome = "ok") =>
            Len(recs) = PyMin(top_n, Len(df) - 1)
    /\ (fn \in LocalFns /\ outcome # "ok") =>
            \A i \in 1..Len(df) : df[i].title_lower # str_strip(str_lower(title))
    /\ (fn = LiveFn /\ outcome # "ValueError") =>
            Len(recs) = PyMin(top_n, Len(candidate_tuples))
    /\ (fn = LiveFn /\ outcome # "ok") =>
            \/ candidate_tuples = <<>>
            \/ \A i \in 1..Len(LiveTexts) : Tokens(LiveTexts[i]) = {}

\* C5 witness: more results asked for than candidates exist, and every
\* candidate returned.
C5_Witness ==
    /\ fn = "recommend"
    /\ outcome = "ok"
    /\ Len(df) >= 3
    /\ top_n > Len(df) - 1
    /\ Len(recs) = Len(df) - 1

\* C6: the row used is the lowest-index row whose lowercase(trim(title))
\* equals lowercase(trim(query)); the call fails with the not-found error,
\* returning nothing, exactly when there is no such row.
C6_ResolvesByNormalizedTitle ==
    fn \in LocalFns =>
        LET matches == {i \in 1..Len(df) :
                          str_lower(str_strip(df[i].title)) = str_lower(str_strip(title))}
        IN  IF matches = {}
            THEN outcome = "ValueError" /\ recs = <<>>
            ELSE outcome = "ok" /\ idx = SetMin(matches)

\* C7: an empty or whitespace-only query title is a lookup miss for every
\* corpus: the not-found error and no recommendations.
C7_EmptyQueryIsAMiss ==
    (fn \in LocalFns /\ str_strip(title) = <<>>) =>
        (outcome = "ValueError" /\ recs = <<>>)

\* C9: live mode returns an error with an empty list exactly when the
\* query's own summary fetch fails or no candidate remains after dropping
\* the candidates whose title equals the query ignoring case and those whose
\* summary fetch fails; otherwise it returns no error and a non-empty list
\* holding neither a dropped candidate nor the query title.
C9_ErrorExactlyWhenNothingUsable ==
    fn = LiveFn =>
        LET found     == IF wiki.search = None THEN <<>> ELSE wiki.search
            remaining == {found[i] : i \in
                            {j \in 1..Len(found) :
                                /\ str_lower(found[j]) # str_lower(title)
                                /\ wiki.page[found[j]] # None}}
        IN  IF wiki.summary = None \/ remaining = {}
            THEN outcome \in LiveErrors /\ recs = <<>>
            ELSE /\ outcome = "ok"
                 /\ recs # <<>>
                 /\ \A j \in 1..Len(recs) :
                        /\ recs[j].title \in remaining
                        /\ str_lower(recs[j].title) # str_lower(title)

\* C9, amended: for top_n >= 1, live mode returns an error with an empty
\* list exactly when the query's own summary fetch fails or no candidate
\* remains after dropping the candidates whose title equals the query
\* ignoring case and those whose summary fetch fails or yields an empty
\* summary.  Otherwise, when some text holds a term that is not a stop word,
\* it returns no error and a non-empty list holding neither a dropped
\* candidate nor the query title; when none does, the vectorizer's fit
\* raises ValueError and nothing is returned.
C9_ErrorExactlyWhenNoSummaryUsable ==
    fn = LiveFn =>
        LET found  == IF wiki.search = None THEN <<>> ELSE wiki.search
            usable == {found[i] : i \in
                         {j \in 1..Len(found) :
                             /\ str_lower(found[j]) # str_lower(title)
                             /\ wiki.page[found[j]] # None
                             /\ wiki.page[found[j]] # <<>>}}
        IN  IF wiki.summary = None \/ usable = {}
            THEN outcome \in LiveErrors /\ recs = <<>>
            ELSE IF Tokens(wiki.summary) = {}
                    /\ \A t \in usable : Tokens(wiki.page[t]) = {}
            THEN outcome = "ValueError" /\ recs = <<>>
            ELSE /\ outcome = "ok"
                 /\ recs # <<>>
                 /\ \A j \in 1..Len(recs) :
                        /\ recs[j].title \in usable
                        /\ str_lower(recs[j].title) # str_lower(title)

\* C9 witness: the search found the query's own title in another case and a
\* candidate with a summary; the call returned the candidate alone.
C9_Witness ==
    /\ fn = LiveFn
    /\ outcome = "ok"
    /\ wiki.search # None
    /\ Len(wiki.search) = 2
    /\ \E i \in 1..2 :
          /\ wiki.search[i] # title
          /\ str_lower(wiki.search[i]) = str_lower(title)
    /\ Len(recs) = 1

-----------------------------------------------------------------------------
(* Properties of the model cache *)

\* The process has finished an ensure_model call.
Finished(p) == pc[p] = "idle" /\ ret[p].outcome # "none"

Populated(e) == e.vect.state = "ok" /\ e.matrix.state = "ok"
Empty(e)     == e.vect.state = "absent" /\ e.matrix.state = "absent"

\* C2: the pair ensure_model(corpus) returns is aligned with the corpus
\* passed in: one matrix row per document, row i built from document i.
C2_ReturnedModelAlignedWithCorpus ==
    \A p \in DOMAIN pc :
        (Finished(p) /\ ret[p].outcome = "ok") =>
            /\ Len(ret[p].matrix) = Len(arg[p])
            /\ \A i \in 1..Len(arg[p]) :
                  ret[p].matrix[i] = Tokens(arg[p][i].overview)
            /\ ret[p].tfidf.vocabulary_ =
                  UNION {Tokens(arg[p][i].overview) : i \in 1..Len(arg[p])}

\* C3: ensure_model builds once.  Called with both files absent it fits a
\* model, persists both parts and returns it; called with both files
\* written it returns the persisted model, fits nothing and leaves the
\* files as they were; while no write fails the build counter never
\* passes 1.
C3_BuildsOnceThenReuses ==
    \A p \in DOMAIN pc :
        Finished(p) =>
            /\ (Empty(entry[p]) /\ arg[p] \in Fittable /\ faults = 0) =>
                    ret[p].outcome = "ok"
            /\ (Empty(entry[p]) /\ ret[p].outcome = "ok") =>
                    /\ builds = entry[p].builds + 1
                    /\ vect_file.state = "ok" /\ matrix_file.state = "ok"
                    /\ ret[p].tfidf = vect_file.vect
                    /\ ret[p].matrix = matrix_file.matrix
                    /\ Len(ret[p].matrix) = Len(arg[p])
            /\ Populated(entry[p]) =>
                    /\ ret[p].outcome = "ok"
                    /\ ret[p].tfidf = entry[p].vect.vect
                    /\ ret[p].matrix = entry[p].matrix.matrix
                    /\ builds = entry[p].builds
                    /\ vect_file = entry[p].vect
                    /\ matrix_file = entry[p].matrix
            /\ faults = 0 => builds <= 1

\* C3 witness: a second call found the model the first call built and
\* persisted, and returned it without building.
C3_Witness ==
    \E p \in DOMAIN pc :
        /\ Finished(p)
        /\ calls >= 2
        /\ builds = 1
        /\ entry[p].builds = 1
        /\ Populated(entry[p])
        /\ ret[p].outcome = "ok"
        /\ ret[p].matrix = matrix_file.matrix

\* C8: a persistence failure is never fatal to ensure_model: whenever the
\* corpus can be fitted the call returns a model, and unless both files
\* were there and readable it is the model fitted on the given corpus.
C8_CacheFailureIsNotFatal ==
    \A p \in DOMAIN pc :
        (Finished(p) /\ arg[p] \in Fittable) =>
            /\ ret[p].outcome = "ok"
            /\ ~Populated(entry[p]) =>
                    /\ ret[p].tfidf = build_fit(arg[p]).tfidf
                    /\ ret[p].matrix = build_fit(arg[p]).matrix

\* C10: with several processes on the shared files, load_model never
\* returns a vectorizer built from one corpus with a matrix built from
\* another.
C10_LoadedPairIsFromOneCorpus ==
    \A p \in DOMAIN pc :
        pc[p] = "return" =>
            \E c \in Fittable :
                /\ local[p].tfidf = build_fit(c).tfidf
                /\ local[p].matrix = build_fit(c).matrix

====
